---- MODULE Spec2Model ----
(***************************************************************************)
(* Model of BookSimilarityEngine (src/similarity.py): text preprocessing,  *)
(* content similarity, metadata similarity, find_similar_books and         *)
(* get_recommendations.                                                    *)
(*                                                                         *)
(* Representation                                                          *)
(*   - a Python str is a sequence of one-character strings;                *)
(*   - a book (a dict) is a function whose DOMAIN is the set of keys it    *)
(*     has, so dict.get(key, default) is Get(book, key, default);          *)
(*   - a Python float is an exact rational <<numerator, denominator>> in   *)
(*     lowest terms with a positive denominator (rounding of binary        *)
(*     floating point is not modelled);                                    *)
(*   - the cosine of the TF-IDF vectors is irrational in general and is    *)
(*     computed in fixed point (thousandths, rounded down);                *)
(*   - an assignment to a local variable, which evaluates its right-hand   *)
(*     side once, is CHOOSE r \in {body : local \in {value}} : TRUE, the   *)
(*     value of body with local bound to value.                            *)
(***************************************************************************)
EXTENDS Integers, Sequences, FiniteSets, TLC

VARIABLES pc, text, normalized,
          text_book, combined_text,
          book1, book2, metadata_sim,
          target_book, user_books, candidate_books, num_recommendations,
          similar_books, scores, recommendations, raised

vars == <<pc, text, normalized, text_book, combined_text, book1, book2, metadata_sim,
          target_book, user_books, candidate_books, num_recommendations,
          similar_books, scores, recommendations, raised>>

(***************************************************************************)
(* Bounds of the model.                                                    *)
(***************************************************************************)
MaxLen == 4      \* longest raw string handed to preprocess_text
MaxCands == 3    \* longest candidate list
MaxHist == 2     \* longest reading history

(***************************************************************************)
(* Generic helpers.                                                        *)
(***************************************************************************)
Min(a, b) == IF a <= b THEN a ELSE b

Max(a, b) == IF a >= b THEN a ELSE b

Abs(a) == IF a < 0 THEN -a ELSE a

RECURSIVE Gcd(_, _)
Gcd(a, b) == IF b = 0 THEN a ELSE Gcd(b, a % b)

SeqsUpTo(S, n) == UNION {[1..k -> S] : k \in 0..n}

RECURSIVE SumOver(_, _)
\* sum of f[x] over the finite set S (f maps S to integers)
SumOver(f, S) ==
    IF S = {} THEN 0
    ELSE LET x == CHOOSE y \in S : TRUE IN f[x] + SumOver(f, S \ {x})

RECURSIVE IsqrtIn(_, _, _)
\* the largest r in lo..hi with r * r <= x, given lo * lo <= x
IsqrtIn(x, lo, hi) ==
    IF lo >= hi THEN lo
    ELSE LET mid == (lo + hi + 1) \div 2
         IN IF mid * mid <= x THEN IsqrtIn(x, mid, hi) ELSE IsqrtIn(x, lo, mid - 1)

Isqrt(x) == IsqrtIn(x, 0, Min(x, 46340))

(***************************************************************************)
(* Exact rationals standing for Python floats.                             *)
(***************************************************************************)
Rat(n, d) ==
    LET g == Gcd(Abs(n), Abs(d))
        s == IF d < 0 THEN -1 ELSE 1
    IN IF n = 0 THEN <<0, 1>> ELSE <<s * (n \div g), s * (d \div g)>>

Lcm(a, b) == (a \div Gcd(a, b)) * b

RAdd(x, y) ==
    LET l == Lcm(x[2], y[2])
    IN Rat(x[1] * (l \div x[2]) + y[1] * (l \div y[2]), l)

RSub(x, y) == RAdd(x, <<-y[1], y[2]>>)

RMul(x, y) ==
    LET a == Rat(x[1], y[2])
        b == Rat(y[1], x[2])
    IN <<a[1] * b[1], a[2] * b[2]>>

RDiv(x, y) == RMul(x, Rat(y[2], y[1]))

RAbs(x) == <<Abs(x[1]), x[2]>>

RLeq(x, y) ==
    LET l == Lcm(x[2], y[2])
    IN x[1] * (l \div x[2]) <= y[1] * (l \div y[2])

RLess(x, y) == RLeq(x, y) /\ x # y

Zero == <<0, 1>>

One == <<1, 1>>

(***************************************************************************)
(* Characters: the ASCII part of Python's str.lower, \w and \s.            *)
(***************************************************************************)
UpperCase == <<"A", "B", "C", "D", "E", "F", "G", "H", "I", "J", "K", "L", "M",
               "N", "O", "P", "Q", "R", "S", "T", "U", "V", "W", "X", "Y", "Z">>

LowerCase == <<"a", "b", "c", "d", "e", "f", "g", "h", "i", "j", "k", "l", "m",
               "n", "o", "p", "q", "r", "s", "t", "u", "v", "w", "x", "y", "z">>

Digits == {"0", "1", "2", "3", "4", "5", "6", "7", "8", "9"}

Range(s) == {s[i] : i \in DOMAIN s}

IsUpper(c) == c \in Range(UpperCase)

IsLower(c) == c \in Range(LowerCase)

\* regex \w: letters, digits and the underscore
IsWordChar(c) == IsUpper(c) \/ IsLower(c) \/ c \in Digits \/ c = "_"

\* regex \s
IsSpaceChar(c) == c \in {" ", "\t", "\n", "\r"}

LowerChar(c) ==
    IF IsUpper(c)
    THEN LowerCase[CHOOSE i \in DOMAIN UpperCase : UpperCase[i] = c]
    ELSE c

\* str.lower()
Lower(s) == [i \in DOMAIN s |-> LowerChar(s[i])]

\* re.sub(r"[^\w\s]", " ", s)
SubNonWord(s) ==
    [i \in DOMAIN s |-> IF IsWordChar(s[i]) \/ IsSpaceChar(s[i]) THEN s[i] ELSE " "]

RECURSIVE SubSpaces(_)
\* re.sub(r"\s+", " ", s): every maximal run of whitespace becomes one space
SubSpaces(s) ==
    IF s = <<>> THEN <<>>
    ELSE IF IsSpaceChar(Head(s))
         THEN IF Len(s) > 1 /\ IsSpaceChar(s[2])
              THEN SubSpaces(Tail(s))
              ELSE <<" ">> \o SubSpaces(Tail(s))
         ELSE <<Head(s)>> \o SubSpaces(Tail(s))

RECURSIVE LStrip(_)
LStrip(s) == IF s # <<>> /\ IsSpaceChar(Head(s)) THEN LStrip(Tail(s)) ELSE s

RECURSIVE RStrip(_)
RStrip(s) ==
    IF s # <<>> /\ IsSpaceChar(s[Len(s)]) THEN RStrip(SubSeq(s, 1, Len(s) - 1)) ELSE s

\* str.strip()
Strip(s) == RStrip(LStrip(s))

\* BookSimilarityEngine.preprocess_text
preprocess_text(s) ==
    IF s = <<>> THEN <<>>
    ELSE Strip(SubSpaces(SubNonWord(Lower(s))))

(***************************************************************************)
(* Books.                                                                  *)
(***************************************************************************)
\* dict.get(key, default)
Get(book, key, default) == IF key \in DOMAIN book THEN book[key] ELSE default

RECURSIVE Join(_)
\* " ".join(list)
Join(list) ==
    IF list = <<>> THEN <<>>
    ELSE IF Len(list) = 1 THEN list[1]
         ELSE list[1] \o <<" ">> \o Join(Tail(list))

\* BookSimilarityEngine._get_combined_text
get_combined_text(book) ==
    LET text_fields == << Get(book, "title", <<>>),
                          Join(Get(book, "authors", <<>>)),
                          Get(book, "description", <<>>),
                          Join(Get(book, "categories", <<>>)) >>
        Truthy(t) == t # <<>>
        kept == SelectSeq(text_fields, Truthy)
    IN Join([i \in DOMAIN kept |-> preprocess_text(kept[i])])

(***************************************************************************)
(* TfidfVectorizer(max_features=5000, stop_words="english",                *)
(* ngram_range=(1, 2)) fitted on two documents, and cosine_similarity.     *)
(* max_features never binds: no document pair of the model has more than   *)
(* 5000 distinct terms.                                                    *)
(***************************************************************************)
RECURSIVE TokenizeFrom(_, _)
\* the maximal runs of word characters of s, cur being the run in progress
TokenizeFrom(s, cur) ==
    IF s = <<>> THEN (IF cur = <<>> THEN <<>> ELSE <<cur>>)
    ELSE IF IsWordChar(Head(s)) THEN TokenizeFrom(Tail(s), Append(cur, Head(s)))
         ELSE (IF cur = <<>> THEN <<>> ELSE <<cur>>) \o TokenizeFrom(Tail(s), <<>>)

\* token_pattern (?u)\b\w\w+\b: runs of two or more word characters
Tokenize(s) ==
    LET LongEnough(t) == Len(t) >= 2
    IN SelectSeq(TokenizeFrom(Lower(s), <<>>), LongEnough)

\* the members of sklearn's English stop-word list that the model's texts use
StopWords == { <<"t", "h", "e">>, <<"o", "f">>, <<"a", "n">>, <<"a", "n", "d">>,
               <<"t", "o">>, <<"a", "b", "o", "u", "t">> }

\* the analyzer: tokens without stop words, then the unigrams and the bigrams
Terms(s) ==
    LET NotStop(t) == t \notin StopWords
        toks == SelectSeq(Tokenize(s), NotStop)
    IN [i \in DOMAIN toks |-> <<toks[i]>>]
       \o [i \in 1..Max(Len(toks) - 1, 0) |-> <<toks[i], toks[i + 1]>>]

\* term frequency
TermCount(term, terms) == Cardinality({i \in DOMAIN terms : terms[i] = term})

\* 100 * idf^2 with idf = ln((1 + 2) / (1 + df)) + 1 (smooth_idf, two documents):
\* idf = 1 for a term of both documents, 1.4055 for a term of one
IdfSq(df) == IF df = 2 THEN 100 ELSE 198

\* cosine of the two TF-IDF rows over the fitted vocabulary, in thousandths;
\* a row without terms is the zero vector and has cosine 0
Cosine(terms1, terms2) ==
    LET vocab == Range(terms1) \cup Range(terms2)
        df == [t \in vocab |-> (IF TermCount(t, terms1) > 0 THEN 1 ELSE 0)
                               + (IF TermCount(t, terms2) > 0 THEN 1 ELSE 0)]
        sq1 == [t \in vocab |-> TermCount(t, terms1) * TermCount(t, terms1) * IdfSq(df[t])]
        sq2 == [t \in vocab |-> TermCount(t, terms2) * TermCount(t, terms2) * IdfSq(df[t])]
        dot == [t \in vocab |-> TermCount(t, terms1) * TermCount(t, terms2) * IdfSq(df[t])]
        n1 == SumOver(sq1, vocab)
        n2 == SumOver(sq2, vocab)
    IN IF n1 = 0 \/ n2 = 0 THEN Zero
       ELSE Rat((SumOver(dot, vocab) * 1000) \div Isqrt(n1 * n2), 1000)

\* fit_transform raises ValueError("empty vocabulary") when no term is left
EmptyVocabulary(text1, text2) == Range(Terms(text1)) \cup Range(Terms(text2)) = {}

\* calculate_content_similarity scoring two texts without any term as identical
calculate_content_similarity_NoTerms(b1, b2) ==
    LET text1 == get_combined_text(b1)
        text2 == get_combined_text(b2)
    IN IF EmptyVocabulary(text1, text2) THEN One
       ELSE Cosine(Terms(text1), Terms(text2))

\* BookSimilarityEngine.calculate_content_similarity
calculate_content_similarity(b1, b2) ==
    LET text1 == get_combined_text(b1)
        text2 == get_combined_text(b2)
    IN IF EmptyVocabulary(text1, text2) THEN Zero
       ELSE Cosine(Terms(text1), Terms(text2))

(***************************************************************************)
(* Metadata similarity.                                                    *)
(***************************************************************************)
\* weights with the author weight mistyped as 0.4
weightsAuthorTypo == [categories |-> Rat(4, 10), authors |-> Rat(4, 10),
                      ratings |-> Rat(2, 10), length |-> Rat(1, 10)]

weights == [categories |-> Rat(4, 10), authors |-> Rat(3, 10),
            ratings |-> Rat(2, 10), length |-> Rat(1, 10)]

\* weight * len(a & b) / max(len(a | b), 1)
Overlap(weight, a, b) ==
    RDiv(RMul(weight, Rat(Cardinality(a \cap b), 1)),
         Rat(Max(Cardinality(a \cup b), 1), 1))

\* 1 - abs(rating1 - rating2) / 5
RatingCloseness(rating1, rating2) ==
    RSub(One, RDiv(RAbs(RSub(rating1, rating2)), Rat(5, 1)))

\* LengthCloseness dividing by the first book's page count
LengthClosenessByFirst(pages1, pages2) ==
    RSub(One, Rat(Abs(pages1 - pages2), pages1))

\* 1 - abs(pages1 - pages2) / max(pages1, pages2)
LengthCloseness(pages1, pages2) ==
    RSub(One, Rat(Abs(pages1 - pages2), Max(pages1, pages2)))

\* BookSimilarityEngine.calculate_metadata_similarity
calculate_metadata_similarity(b1, b2) ==
    LET categories1 == Range(Get(b1, "categories", <<>>))
        categories2 == Range(Get(b2, "categories", <<>>))
        authors1 == Range(Get(b1, "authors", <<>>))
        authors2 == Range(Get(b2, "authors", <<>>))
        rating1 == Get(b1, "average_rating", Zero)
        rating2 == Get(b2, "average_rating", Zero)
        pages1 == Get(b1, "page_count", 0)
        pages2 == Get(b2, "page_count", 0)
        score0 == Zero
        score1 == IF categories1 # {} /\ categories2 # {}
                  THEN RAdd(score0, Overlap(weights.categories, categories1, categories2))
                  ELSE score0
        score2 == IF authors1 # {} /\ authors2 # {}
                  THEN RAdd(score1, Overlap(weights.authors, authors1, authors2))
                  ELSE score1
        score3 == IF rating1 # Zero /\ rating2 # Zero
                  THEN RAdd(score2, RMul(weights.ratings, RatingCloseness(rating1, rating2)))
                  ELSE score2
        score4 == IF pages1 # 0 /\ pages2 # 0
                  THEN RAdd(score3, RMul(weights.length, LengthCloseness(pages1, pages2)))
                  ELSE score3
    IN score4

(***************************************************************************)
(* The books of the model.  Hobbit and Rings are the two books of the      *)
(* module's own example (src/similarity.py, lines 126-144) with shortened  *)
(* descriptions.                                                           *)
(***************************************************************************)
Tolkien == <<"J", ".", "R", ".", "R", ".", " ", "T", "o", "l", "k", "i", "e", "n">>

Lewis == <<"C", ".", "S", ".", " ", "L", "e", "w", "i", "s">>

Fantasy == <<"F", "a", "n", "t", "a", "s", "y">>

Adventure == <<"A", "d", "v", "e", "n", "t", "u", "r", "e">>

Epic == <<"E", "p", "i", "c">>

Hobbit ==
    [id |-> "1", title |-> <<"T", "h", "e", " ", "H", "o", "b", "b", "i", "t">>,
     authors |-> <<Tolkien>>, categories |-> <<Fantasy, Adventure>>,
     description |-> <<"A", " ", "f", "a", "n", "t", "a", "s", "y", " ", "a", "d", "v", "e", "n", "t", "u", "r", "e", ".">>,
     average_rating |-> Rat(45, 10), page_count |-> 300]

Rings ==
    [id |-> "2", title |-> <<"T", "h", "e", " ", "L", "o", "r", "d", " ", "o", "f", " ", "t", "h", "e", " ", "R", "i", "n", "g", "s">>,
     authors |-> <<Tolkien>>, categories |-> <<Fantasy, Epic>>,
     description |-> <<"A", "n", " ", "e", "p", "i", "c", " ", "f", "a", "n", "t", "a", "s", "y", " ", "q", "u", "e", "s", "t", ".">>,
     average_rating |-> Rat(47, 10), page_count |-> 1200]

\* text of stop words only, every metadata field empty or zero
StopWordBook ==
    [id |-> "3", title |-> <<"T", "h", "e">>, authors |-> <<>>, categories |-> <<>>,
     description |-> <<>>, average_rating |-> Zero, page_count |-> 0]

\* a record with nothing but its id: empty combined text, no metadata
BareBook == [id |-> "4"]

\* no page count, a description of punctuation only
Narnia ==
    [id |-> "5", title |-> <<"N", "a", "r", "n", "i", "a">>, authors |-> <<Lewis>>,
     categories |-> <<Fantasy>>, description |-> <<".", ".", ".">>,
     average_rating |-> Rat(4, 1)]

Library == {Hobbit, Rings, StopWordBook, BareBook, Narnia}

\* the books a reading history is drawn from
HistoryPool == Library

(***************************************************************************)
(* Ranking.                                                                *)
(***************************************************************************)
CONTENT_WEIGHT == Rat(6, 10)

METADATA_WEIGHT == Rat(4, 10)

\* dict.get("id") of a book without the key
None == "None"

\* combined_sim of find_similar_books
CombinedSim(target, candidate) ==
    RAdd(RMul(calculate_content_similarity(target, candidate), CONTENT_WEIGHT),
         RMul(calculate_metadata_similarity(target, candidate), METADATA_WEIGHT))

\* CombinedSim of every pair of books of the model, computed once
CombinedSimTable ==
    [pair \in Library \X Library |-> CombinedSim(pair[1], pair[2])] @@ <<>>

\* combined_sim as find_similar_books computes it for one candidate
CombinedSimOf(target, candidate) ==
    IF <<target, candidate>> \in DOMAIN CombinedSimTable
    THEN CombinedSimTable[<<target, candidate>>]
    ELSE CombinedSim(target, candidate)

RECURSIVE SimilaritiesNoSkip(_, _)
\* Similarities without the id test of lines 90-91
SimilaritiesNoSkip(target, candidates) ==
    IF candidates = <<>> THEN <<>>
    ELSE << <<Head(candidates), CombinedSimOf(target, Head(candidates))>> >>
         \o SimilaritiesNoSkip(target, Tail(candidates))

RECURSIVE Similarities(_, _)
\* the loop of find_similar_books: the (candidate, combined_sim) pairs, in
\* candidate order, of the candidates whose id is not the target's
Similarities(target, candidates) ==
    IF candidates = <<>> THEN <<>>
    ELSE LET candidate == Head(candidates)
             rest == Similarities(target, Tail(candidates))
         IN IF Get(candidate, "id", None) = Get(target, "id", None) THEN rest
            ELSE << <<candidate, CombinedSimOf(target, candidate)>> >> \o rest

RECURSIVE InsertDescUnstable(_, _)
\* InsertDesc placing e ahead of the pairs of equal score
InsertDescUnstable(sorted, e) ==
    IF sorted = <<>> THEN <<e>>
    ELSE IF RLeq(Head(sorted)[2], e[2]) THEN <<e>> \o sorted
         ELSE <<Head(sorted)>> \o InsertDescUnstable(Tail(sorted), e)

RECURSIVE InsertDesc(_, _)
\* e placed behind every pair whose score is at least e's
InsertDesc(sorted, e) ==
    IF sorted = <<>> THEN <<e>>
    ELSE IF RLess(Head(sorted)[2], e[2]) THEN <<e>> \o sorted
         ELSE <<Head(sorted)>> \o InsertDesc(Tail(sorted), e)

RECURSIVE SortFrom(_, _)
\* the pairs of rest inserted one by one, in list order, into sorted
SortFrom(sorted, rest) ==
    IF rest = <<>> THEN sorted
    ELSE CHOOSE r \in {SortFrom(s, Tail(rest)) : s \in {InsertDesc(sorted, Head(rest))}} : TRUE

\* list.sort(key=lambda x: x[1], reverse=True): stable, descending by score
SortDesc(pairs) == SortFrom(<<>>, pairs)

\* Slice keeping one entry too many
SliceOffByOne(list, n) == SubSeq(list, 1, Min(n + 1, Len(list)))

\* list[:n]
Slice(list, n) ==
    IF n >= 0 THEN SubSeq(list, 1, Min(n, Len(list)))
    ELSE SubSeq(list, 1, Max(Len(list) + n, 0))

\* BookSimilarityEngine.find_similar_books
find_similar_books(target, candidates, n) ==
    CHOOSE r \in {Slice(sorted, n) :
                     sorted \in {SortDesc(similarities) :
                                    similarities \in {Similarities(target, candidates)}}} : TRUE

\* scores[book["id"]] += sim_score / k for one (book, sim_score) pair
AddScore(acc, pair, k) ==
    LET id == pair[1].id
        old == IF id \in DOMAIN acc THEN acc[id] ELSE Zero
        new == RAdd(old, RDiv(pair[2], Rat(k, 1)))
    IN [x \in DOMAIN acc \cup {id} |-> IF x = id THEN new ELSE acc[x]]

RECURSIVE AddScores(_, _, _)
\* the inner loop of get_recommendations over the pairs of similar_books
AddScores(acc, similar, k) ==
    IF similar = <<>> THEN acc
    ELSE CHOOSE r \in {AddScores(next, Tail(similar), k) :
                          next \in {AddScore(acc, Head(similar), k)}} : TRUE

RECURSIVE Accumulate(_, _, _, _)
\* the outer loop of get_recommendations over the books of history still to do
Accumulate(acc, todo, candidates, k) ==
    IF todo = <<>> THEN acc
    ELSE CHOOSE r \in {Accumulate(next, Tail(todo), candidates, k) :
                          next \in {AddScores(acc, similar_books_of, k) :
                                       similar_books_of \in
                                           {find_similar_books(Head(todo), candidates,
                                                               Len(candidates))}}} : TRUE

\* scores, the defaultdict of get_recommendations after its loop
Scores(history, candidates) == Accumulate(<<>>, history, candidates, Len(history)) @@ <<>>

\* the division sim_score / len(user_books) is reached with len(user_books) = 0
DividesByZero(history, candidates) ==
    /\ Len(history) = 0
    /\ \E i \in DOMAIN history :
          find_similar_books(history[i], candidates, Len(candidates)) # <<>>

\* the ranking and the slice of get_recommendations, given the final scores
RankedBooks(acc, candidates, n) ==
    LET InScores(book) == book.id \in DOMAIN acc
        Pairs(eligible) == [i \in DOMAIN eligible |-> <<eligible[i], acc[eligible[i].id]>>]
        Books(top) == [i \in DOMAIN top |-> top[i][1]]
    IN CHOOSE r \in {Books(Slice(ranked_books, n)) :
                        ranked_books \in {SortDesc(Pairs(eligible)) :
                                             eligible \in {SelectSeq(candidates, InScores)}}} : TRUE

\* BookSimilarityEngine.get_recommendations
get_recommendations(history, candidates, n) ==
    CHOOSE r \in {RankedBooks(acc, candidates, n) : acc \in {Scores(history, candidates)}} : TRUE

(***************************************************************************)
(* Inputs of the pure scorers.                                             *)
(***************************************************************************)
\* the characters raw strings are drawn from: an upper-case and a lower-case
\* letter, a digit, the underscore, punctuation, a space and a tab
TextChars == {"A", "b", "1", "_", "-", " ", "\t"}

\* a dict with the key when choice is <<value>>, without it when choice is <<>>
Field(key, choice) == IF choice = <<>> THEN <<>> ELSE key :> choice[1]

CategoryChoices ==
    {<<>>, << <<>> >>, << <<Fantasy, Adventure>> >>, << <<Fantasy, Epic>> >>,
     << <<Epic, Epic>> >>}

AuthorChoices == {<<>>, << <<>> >>, << <<Tolkien>> >>, << <<Tolkien, Lewis>> >>}

\* absent, 0, and ratings of the documented range [0, 5]
RatingChoices == {<<>>, <<Zero>>, <<Rat(1, 10)>>, <<Rat(47, 10)>>, <<Rat(5, 1)>>}

\* absent, 0, and non-negative page counts
PageChoices == {<<>>, <<0>>, <<1>>, <<300>>, <<1200>>}

MetaBooks ==
    { Field("categories", c) @@ Field("authors", a)
        @@ Field("average_rating", r) @@ Field("page_count", p) :
      c \in CategoryChoices, a \in AuthorChoices, r \in RatingChoices, p \in PageChoices }

\* raw title and description strings: absent, empty, punctuation only,
\* whitespace only, and strings that keep a word
TitleChoices ==
    {<<>>, << <<>> >>, << <<"-">> >>, << <<" ">> >>, << <<"A">> >>,
     << <<"A", "-", "b">> >>}

DescriptionChoices ==
    {<<>>, << <<>> >>, << <<".", ".", ".">> >>, << <<"b", "1">> >>}

\* raw author lists: absent, empty, one punctuation-only name, names with words,
\* and a list that holds an empty name
TextAuthorChoices ==
    {<<>>, << <<>> >>, << << <<"-">> >> >>, << <<Tolkien>> >>, << <<Tolkien, Lewis>> >>,
     << << <<>>, <<"A">> >> >>}

TextCategoryChoices ==
    {<<>>, << <<>> >>, << <<Fantasy, Adventure>> >>, << << <<"-">>, <<"-">> >> >>}

TextBooks ==
    { Field("title", t) @@ Field("authors", a)
        @@ Field("description", d) @@ Field("categories", c) :
      t \in TitleChoices, a \in TextAuthorChoices,
      d \in DescriptionChoices, c \in TextCategoryChoices }

(***************************************************************************)
(* State machine.  The engine keeps no state between calls: a behaviour is *)
(* one call, its arguments chosen by Init and its result set by the        *)
(* action.  Variables a call does not use stay at their blank values.      *)
(***************************************************************************)
NoText == <<>>

NoBook == <<>>

NoList == <<>>

\* the empty defaultdict
NoScores == <<>>

BlankText == text = NoText /\ normalized = NoText

BlankCombined == text_book = NoBook /\ combined_text = NoText

BlankMeta == book1 = NoBook /\ book2 = NoBook /\ metadata_sim = Zero

BlankRank ==
    /\ target_book = NoBook
    /\ user_books = NoList
    /\ candidate_books = NoList
    /\ num_recommendations = 0
    /\ similar_books = NoList
    /\ scores = NoScores
    /\ recommendations = NoList
    /\ raised = "none"

\* a call of preprocess_text
InitText ==
    /\ pc = "ready"
    /\ text \in SeqsUpTo(TextChars, MaxLen)
    /\ normalized = NoText
    /\ BlankCombined
    /\ BlankMeta
    /\ BlankRank

PreprocessText ==
    /\ pc = "ready"
    /\ pc' = "done"
    /\ normalized' = preprocess_text(text)
    /\ UNCHANGED <<text, text_book, combined_text, book1, book2, metadata_sim, target_book,
                   user_books,
                   candidate_books, num_recommendations, similar_books, scores,
                   recommendations, raised>>

SpecText == InitText /\ [][PreprocessText]_vars

\* a call of _get_combined_text
InitCombined ==
    /\ pc = "ready"
    /\ text_book \in TextBooks
    /\ combined_text = NoText
    /\ BlankText
    /\ BlankMeta
    /\ BlankRank

GetCombinedText ==
    /\ pc = "ready"
    /\ pc' = "done"
    /\ combined_text' = get_combined_text(text_book)
    /\ UNCHANGED <<text, normalized, text_book, book1, book2, metadata_sim, target_book,
                   user_books, candidate_books, num_recommendations, similar_books,
                   scores, recommendations, raised>>

SpecCombined == InitCombined /\ [][GetCombinedText]_vars

\* a call of calculate_metadata_similarity
InitMeta ==
    /\ pc = "ready"
    /\ book1 \in MetaBooks
    /\ book2 \in MetaBooks
    /\ metadata_sim = Zero
    /\ BlankText
    /\ BlankCombined
    /\ BlankRank

CalculateMetadataSimilarity ==
    /\ pc = "ready"
    /\ pc' = "done"
    /\ metadata_sim' = calculate_metadata_similarity(book1, book2)
    /\ UNCHANGED <<text, normalized, text_book, combined_text, book1, book2, target_book,
                   user_books,
                   candidate_books, num_recommendations, similar_books, scores,
                   recommendations, raised>>

SpecMeta == InitMeta /\ [][CalculateMetadataSimilarity]_vars

\* a call of find_similar_books
InitFind ==
    /\ pc = "ready"
    /\ target_book \in Library
    /\ candidate_books \in SeqsUpTo(Library, MaxCands)
    /\ num_recommendations \in 0..(Len(candidate_books) + 1)
    /\ user_books = NoList
    /\ similar_books = NoList
    /\ scores = NoScores
    /\ recommendations = NoList
    /\ raised = "none"
    /\ BlankText
    /\ BlankCombined
    /\ BlankMeta

FindSimilarBooks ==
    /\ pc = "ready"
    /\ pc' = "done"
    /\ similar_books' = find_similar_books(target_book, candidate_books, num_recommendations)
    /\ UNCHANGED <<text, normalized, text_book, combined_text, book1, book2, metadata_sim,
                   target_book, user_books,
                   candidate_books, num_recommendations, scores, recommendations, raised>>

SpecFind == InitFind /\ [][FindSimilarBooks]_vars

\* a call of get_recommendations
Init ==
    /\ pc = "ready"
    /\ user_books \in SeqsUpTo(HistoryPool, MaxHist)
    /\ candidate_books \in SeqsUpTo(Library, MaxCands)
    /\ num_recommendations \in 0..(Len(candidate_books) + 1)
    /\ target_book = NoBook
    /\ similar_books = NoList
    /\ scores = NoScores
    /\ recommendations = NoList
    /\ raised = "none"
    /\ BlankText
    /\ BlankCombined
    /\ BlankMeta

GetRecommendations ==
    /\ pc = "ready"
    /\ pc' = "done"
    /\ IF DividesByZero(user_books, candidate_books)
       THEN raised' = "ZeroDivisionError" /\ recommendations' = NoList /\ scores' = NoScores
       ELSE /\ raised' = "none"
            /\ scores' = Scores(user_books, candidate_books)
            /\ recommendations' =
                   get_recommendations(user_books, candidate_books, num_recommendations)
    /\ UNCHANGED <<text, normalized, text_book, combined_text, book1, book2, metadata_sim,
                   target_book, user_books,
                   candidate_books, num_recommendations, similar_books>>

Next == GetRecommendations

Spec == Init /\ [][Next]_vars

(***************************************************************************)
(* Definitions the properties are stated with.  The tables hold the value  *)
(* of a scorer for every pair of books of the model, computed once.        *)
(***************************************************************************)
IdOf(book) == Get(book, "id", None)

ContentSimTable ==
    [pair \in Library \X Library |-> calculate_content_similarity(pair[1], pair[2])] @@ <<>>

MetadataSimTable ==
    [pair \in Library \X Library |-> calculate_metadata_similarity(pair[1], pair[2])] @@ <<>>

\* 0.6 * content + 0.4 * metadata
BlendTable ==
    [pair \in Library \X Library |->
        RAdd(RMul(Rat(6, 10), ContentSimTable[pair]),
             RMul(Rat(4, 10), MetadataSimTable[pair]))] @@ <<>>

CombinedTextTable == [b \in Library |-> get_combined_text(b)] @@ <<>>

\* whether a pair has an empty combined text on either side or no term at all
DegenerateTable ==
    [pair \in Library \X Library |->
        \/ CombinedTextTable[pair[1]] = <<>>
        \/ CombinedTextTable[pair[2]] = <<>>
        \/ EmptyVocabulary(CombinedTextTable[pair[1]], CombinedTextTable[pair[2]])] @@ <<>>

Degenerate(i) == DegenerateTable[<<target_book, candidate_books[i]>>]

\* the positions of the candidates whose id is not the target's
NonTarget ==
    {i \in DOMAIN candidate_books : IdOf(candidate_books[i]) # IdOf(target_book)}

\* the positions of the candidates that carry the target's id
SameIdAsTarget ==
    {i \in DOMAIN candidate_books : IdOf(candidate_books[i]) = IdOf(target_book)}

BlendOf(i) == BlendTable[<<target_book, candidate_books[i]>>]

\* the place of candidate i in the stable descending ranking of the
\* non-target candidates: behind every higher score and every earlier equal one
RankOf(i) ==
    1 + Cardinality({j \in NonTarget :
                        \/ RLess(BlendOf(i), BlendOf(j))
                        \/ (BlendOf(j) = BlendOf(i) /\ j < i)})

(***************************************************************************)
(* C1  Self-exclusion: find_similar_books never returns an entry whose     *)
(* book id equals the target's id, however often the candidate list holds  *)
(* that id.                                                                *)
(***************************************************************************)
C1_SelfExclusion ==
    pc = "done" =>
        \A r \in DOMAIN similar_books : IdOf(similar_books[r][1]) # IdOf(target_book)

\* the target's id is in the candidate list twice, beside other candidates
C1_Witness ==
    /\ pc = "done"
    /\ Cardinality(SameIdAsTarget) >= 2
    /\ similar_books # <<>>

(***************************************************************************)
(* C3  Bounded result size: for a non-negative n the length of             *)
(* find_similar_books(target, candidates, n) is min(n, number of           *)
(* candidates whose id differs from the target's).                         *)
(***************************************************************************)
C3_BoundedSize ==
    pc = "done" =>
        Len(similar_books) = Min(num_recommendations, Cardinality(NonTarget))

\* n exceeds the number of non-target candidates and all of them are returned
C3_Witness ==
    /\ pc = "done"
    /\ SameIdAsTarget # {}
    /\ Cardinality(NonTarget) >= 2
    /\ num_recommendations > Cardinality(NonTarget)
    /\ Len(similar_books) = Cardinality(NonTarget)

(***************************************************************************)
(* C4  Ordering: the result of find_similar_books is the first n entries   *)
(* of the stable descending ranking of the non-target candidates by        *)
(* 0.6 * content + 0.4 * metadata: scores never increase along the result  *)
(* and equal scores keep the order of the candidate list.                  *)
(***************************************************************************)
C4_Ordering ==
    pc = "done" =>
        /\ \A r \in 1..(Len(similar_books) - 1) :
              RLeq(similar_books[r + 1][2], similar_books[r][2])
        /\ \A i \in NonTarget :
              RankOf(i) <= Len(similar_books) =>
                  similar_books[RankOf(i)] = <<candidate_books[i], BlendOf(i)>>
        /\ \A r \in DOMAIN similar_books : \E i \in NonTarget : RankOf(i) = r

\* the best candidate comes last in the candidate list and is returned first,
\* ahead of two different books with equal scores
C4_Witness ==
    /\ pc = "done"
    /\ Len(candidate_books) = 3
    /\ Len(similar_books) = 3
    /\ similar_books[1][1] = candidate_books[3]
    /\ RLess(similar_books[2][2], similar_books[1][2])
    /\ similar_books[2][2] = similar_books[3][2]
    /\ similar_books[2][1] # similar_books[3][1]

(***************************************************************************)
(* C8  Empty-text degradation and failure isolation: content similarity is *)
(* 0 when a combined text is empty or the pair has no term, and in         *)
(* find_similar_books such a candidate still gets its entry (scored by     *)
(* metadata alone) while every other non-target candidate is ranked too.   *)
(***************************************************************************)
C8_EmptyTextDegradation ==
    /\ \A i \in DOMAIN candidate_books :
          Degenerate(i) =>
              ContentSimTable[<<target_book, candidate_books[i]>>] = Zero
    /\ (pc = "done" /\ num_recommendations >= Len(candidate_books)) =>
          /\ Len(similar_books) = Cardinality(NonTarget)
          /\ \A i \in NonTarget :
                \E r \in DOMAIN similar_books :
                   /\ similar_books[r][1] = candidate_books[i]
                   /\ Degenerate(i) =>
                         similar_books[r][2] =
                             RMul(Rat(4, 10),
                                  MetadataSimTable[<<target_book, candidate_books[i]>>])

\* a candidate without text, one with stop words only and one with terms are
\* all ranked for a target that has terms
C8_Witness ==
    /\ pc = "done"
    /\ target_book = Hobbit
    /\ candidate_books = <<BareBook, StopWordBook, Rings>>
    /\ Len(similar_books) = 3
    /\ similar_books[1][1] = Rings

(***************************************************************************)
(* C2  Empty-history failure: get_recommendations with an empty history    *)
(* fails with an explicit invalid-argument error; it does not return a     *)
(* result and does not raise a division-by-zero fault.                     *)
(***************************************************************************)
C2_EmptyHistoryFails ==
    (pc = "done" /\ user_books = <<>>) => raised = "ValueError"

(***************************************************************************)
(* Definitions for the properties of get_recommendations.                  *)
(***************************************************************************)
\* no two candidates carry the same id
DistinctIds(books) ==
    \A i, j \in DOMAIN books : IdOf(books[i]) = IdOf(books[j]) => i = j

RECURSIVE RSum(_)
\* the sum of a sequence of rationals
RSum(list) == IF list = <<>> THEN Zero ELSE RAdd(Head(list), RSum(Tail(list)))

\* the history books whose id differs from candidate i's, in history order
Contributors(i) ==
    LET Other(h) == IdOf(h) # IdOf(candidate_books[i])
    IN SelectSeq(user_books, Other)

\* candidate i received at least one contribution
Eligible == {i \in DOMAIN candidate_books : Contributors(i) # <<>>}

\* (sum over the contributing history books h of blend(h, candidate i)) / |history|
AverageOf(i) ==
    LET hs == Contributors(i)
    IN RDiv(RSum([k \in DOMAIN hs |-> BlendTable[<<hs[k], candidate_books[i]>>]]),
            Rat(Len(user_books), 1))

\* the place of candidate i in the stable descending ranking of the eligible
\* candidates by AverageOf
AverageRankOf(i) ==
    1 + Cardinality({j \in Eligible :
                        \/ RLess(AverageOf(i), AverageOf(j))
                        \/ (AverageOf(j) = AverageOf(i) /\ j < i)})

\* the books of find_similar_books(user_books[1], candidate_books, n), in order
SimilarToFirst(n) ==
    LET found == find_similar_books(user_books[1], candidate_books, n)
    IN [r \in DOMAIN found |-> found[r][1]]

SingleHistoryAgrees ==
    LET full == find_similar_books(user_books[1], candidate_books, Len(candidate_books))
    IN /\ \A r \in DOMAIN full :
             /\ IdOf(full[r][1]) \in DOMAIN scores
             /\ scores[IdOf(full[r][1])] = full[r][2]
       /\ recommendations = SimilarToFirst(num_recommendations)

AggregationAgrees ==
    /\ \A i \in Eligible :
          /\ IdOf(candidate_books[i]) \in DOMAIN scores
          /\ scores[IdOf(candidate_books[i])] = AverageOf(i)
    /\ Len(recommendations) = Min(num_recommendations, Cardinality(Eligible))
    /\ \A i \in Eligible :
          AverageRankOf(i) <= Len(recommendations) =>
              recommendations[AverageRankOf(i)] = candidate_books[i]
    /\ \A r \in DOMAIN recommendations :
          \E i \in DOMAIN candidate_books : recommendations[r] = candidate_books[i]

(***************************************************************************)
(* C5  History averaging with one history book h: for any candidate list   *)
(* the accumulated score of each candidate equals the combined score       *)
(* find_similar_books(h, candidates, |candidates|) gives it, and           *)
(* get_recommendations([h], candidates, n) returns the books of            *)
(* find_similar_books(h, candidates, n) in the same order.                 *)
(***************************************************************************)
C5_SingleHistory ==
    (pc = "done" /\ Len(user_books) = 1) => SingleHistoryAgrees

\* C5 restricted to candidate lists without a repeated id
C5_SingleHistoryDistinctIds ==
    (pc = "done" /\ Len(user_books) = 1 /\ DistinctIds(candidate_books)) =>
        SingleHistoryAgrees

(***************************************************************************)
(* C10  Aggregation over a non-empty history: each candidate c gets        *)
(* (sum over the history books h with another id of combined(h, c)) /      *)
(* |history|; only candidates with at least one contribution are eligible; *)
(* the eligible candidates are returned in non-increasing order of that    *)
(* score, ties in candidate order, truncated to n; every returned book is  *)
(* an element of the candidate list.                                       *)
(***************************************************************************)
C10_Aggregation ==
    (pc = "done" /\ Len(user_books) > 0) => AggregationAgrees

\* C10 restricted to candidate lists without a repeated id
C10_AggregationDistinctIds ==
    (pc = "done" /\ Len(user_books) > 0 /\ DistinctIds(candidate_books)) =>
        AggregationAgrees

C9_Symmetry ==
    pc = "done" => metadata_sim = calculate_metadata_similarity(book2, book1)

\* categories absent in one book only, a zero rating in one book only, and
\* two different non-zero page counts
C9_Witness ==
    /\ pc = "done"
    /\ "categories" \in DOMAIN book1
    /\ "categories" \notin DOMAIN book2
    /\ Get(book1, "average_rating", Zero) = Zero
    /\ Get(book2, "average_rating", Zero) # Zero
    /\ Get(book1, "page_count", 0) = 300
    /\ Get(book2, "page_count", 0) = 1200
    /\ metadata_sim # Zero

(***************************************************************************)
(* C7  Text preprocessing: the result of preprocess_text holds only        *)
(* lower-case letters, digits and single spaces (every other character,    *)
(* the underscore included, became a space), has no run of two or more     *)
(* whitespace characters, no leading or trailing whitespace, and is empty  *)
(* for empty input.                                                        *)
(***************************************************************************)
C7_Preprocess ==
    pc = "done" =>
        /\ \A i \in DOMAIN normalized :
              IsLower(normalized[i]) \/ normalized[i] \in Digits \/ normalized[i] = " "
        /\ \A i \in 1..(Len(normalized) - 1) :
              ~(IsSpaceChar(normalized[i]) /\ IsSpaceChar(normalized[i + 1]))
        /\ normalized # <<>> =>
              (~IsSpaceChar(normalized[1]) /\ ~IsSpaceChar(normalized[Len(normalized)]))
        /\ text = <<>> => normalized = <<>>

\* C7 with the underscore admitted beside letters and digits
C7_PreprocessWordChars ==
    pc = "done" =>
        /\ \A i \in DOMAIN normalized :
              \/ IsLower(normalized[i])
              \/ normalized[i] \in Digits
              \/ normalized[i] \in {" ", "_"}
        /\ \A i \in 1..(Len(normalized) - 1) :
              ~(IsSpaceChar(normalized[i]) /\ IsSpaceChar(normalized[i + 1]))
        /\ normalized # <<>> =>
              (~IsSpaceChar(normalized[1]) /\ ~IsSpaceChar(normalized[Len(normalized)]))
        /\ text = <<>> => normalized = <<>>

(***************************************************************************)
(* C11  Combined text: the result of _get_combined_text is the normalized  *)
(* title, space-joined authors, description and space-joined categories,   *)
(* in that order, with every field whose normalized form is empty skipped  *)
(* and the others joined by exactly one space; so it has no leading,       *)
(* trailing or doubled space, and it is empty exactly when every field     *)
(* normalizes to the empty string.                                         *)
(***************************************************************************)
NormalizedFields(b) ==
    << preprocess_text(Get(b, "title", <<>>)),
       preprocess_text(Join(Get(b, "authors", <<>>))),
       preprocess_text(Get(b, "description", <<>>)),
       preprocess_text(Join(Get(b, "categories", <<>>))) >>

NonEmptyText(t) == t # <<>>

CleanlySpaced(t) ==
    /\ \A i \in 1..(Len(t) - 1) : ~(t[i] = " " /\ t[i + 1] = " ")
    /\ t # <<>> => (t[1] # " " /\ t[Len(t)] # " ")

C11_CombinedText ==
    pc = "done" =>
        /\ combined_text = Join(SelectSeq(NormalizedFields(text_book), NonEmptyText))
        /\ CleanlySpaced(combined_text)
        /\ combined_text = <<>> <=>
               \A i \in DOMAIN NormalizedFields(text_book) :
                   NormalizedFields(text_book)[i] = <<>>

\* the four raw strings of b, "" for a missing field or an empty list
RawFields(b) ==
    << Get(b, "title", <<>>), Join(Get(b, "authors", <<>>)),
       Get(b, "description", <<>>), Join(Get(b, "categories", <<>>)) >>

\* no field of b is a non-empty string that normalizes to the empty string
NoBlankField(b) ==
    \A i \in DOMAIN RawFields(b) :
        RawFields(b)[i] # <<>> => preprocess_text(RawFields(b)[i]) # <<>>

\* C11 for the books none of whose fields is made of punctuation or whitespace only
C11_CombinedTextNoBlankField ==
    pc = "done" /\ NoBlankField(text_book) =>
        /\ combined_text = Join(SelectSeq(NormalizedFields(text_book), NonEmptyText))
        /\ CleanlySpaced(combined_text)
        /\ combined_text = <<>> <=>
               \A i \in DOMAIN NormalizedFields(text_book) :
                   NormalizedFields(text_book)[i] = <<>>

====
